---- MODULE Spec2Model ----
(***************************************************************************)
(* The interaction-response state machine of discord_slash/context.py:     *)
(* one interaction context (slash, component or menu) on which the user's  *)
(* callback issues defer, send and edit_origin one after the other.  Every *)
(* HTTP call of an operation either returns or raises.  A second          *)
(* specification, PromptSpec, runs prompt on such a context: the prompt    *)
(* message, the wait for a click, its timeout or cancellation, _cleanup.   *)
(* DataSpec constructs the data model objects, EmbedSpec calls             *)
(* generate_result_embed, OverlapSpec runs calls of defer and send that    *)
(* overlap at their awaits.                                                *)
(***************************************************************************)
EXTENDS Integers, Sequences, FiniteSets, TLC

\* ------------------------------------------------------------------ bounds
MaxOps == 4          \* operations issued on the context in one behaviour
MaxFiles == 1        \* length of the longest files list tried
MaxEvents == 2       \* component events offered to one wait of prompt
MaxCoroutines == 2   \* calls of defer / send in flight on one context at once

\* ------------------------------------------------------- program constants
MaxEmbeds == 10                  \* len(embeds) > 10
DEFER_CHANNEL_MESSAGE == 5       \* {"type": 5}
DEFER_UPDATE_MESSAGE == 6        \* {"type": 6 if edit_origin or ignore else 5}
CHANNEL_MESSAGE == 4             \* {"type": 4, "data": base}
UPDATE_MESSAGE == 7              \* {"type": 7, "data": _resp}
EPHEMERAL == 64                  \* {"flags": 64}

Kinds == {"slash", "component", "menu"}

\* key not passed for the **fields of edit_origin
Absent == -1

\* Lengths tried for an embeds list.  In send, 0 stands for None and for
\* the empty list alike: the code only ever tests if embeds.
EmbedsChoices == {0, 1, MaxEmbeds, MaxEmbeds + 1}

\* The arguments of one call.  embed / file / delete_after are TRUE when a
\* truthy value is passed; embeds / files are the length of the list passed;
\* components is "none", "rows" (every top-level type is 1) or "bad".
NoArgs ==
  [hidden |-> FALSE, edit_origin |-> FALSE, ignore |-> FALSE,
   embed |-> FALSE, embeds |-> 0, file |-> FALSE, files |-> 0,
   delete_after |-> FALSE, components |-> "none"]

DeferArgs(k) ==
  IF k = "slash"
  THEN {[NoArgs EXCEPT !.hidden = h] : h \in BOOLEAN}
  ELSE {[NoArgs EXCEPT !.hidden = h, !.edit_origin = e, !.ignore = i] :
          h \in BOOLEAN, e \in BOOLEAN, i \in BOOLEAN}

SendArgs ==
  {[NoArgs EXCEPT !.hidden = h, !.embed = e, !.embeds = es, !.file = f,
                  !.files = fs, !.delete_after = d, !.components = c] :
     h \in BOOLEAN, e \in BOOLEAN, es \in EmbedsChoices, f \in BOOLEAN,
     fs \in 0..MaxFiles, d \in BOOLEAN, c \in {"none", "rows", "bad"}}

EditOriginArgs ==
  {[NoArgs EXCEPT !.embed = e, !.embeds = es, !.file = f, !.files = fs] :
     e \in BOOLEAN, es \in EmbedsChoices \cup {Absent}, f \in BOOLEAN,
     fs \in (0..MaxFiles) \cup {Absent}}

\* ------------------------------------------------------------ HTTP requests
\* One call on the HTTP collaborator.  type is the interaction response type
\* (0 for edit and followup, which carry none), flags the ephemeral flag of
\* the body (0 = not set), files the number of attachments, body what the
\* JSON carries: "ack" (type only), "message" (content) or "empty" ({}).
Req(call, type, flags, files, body) ==
  [call |-> call, type |-> type, flags |-> flags, files |-> files, body |-> body]

\* What one call of an operation did: the context's fields afterwards, the
\* requests it issued in order, the exception it raised ("none" = returned),
\* the warnings it logged, the file handles it closed and the delete tasks
\* it created.
Outcome(s, reqs, raised, msg) ==
  [s |-> s, reqs |-> reqs, raised |-> raised, msg |-> msg,
   warned_hidden |-> FALSE, warned_edit_origin |-> FALSE,
   closed |-> 0, scheduled |-> 0]

\* ---------------------------------------------------------------- defer
\* if self.deferred or self.responded: raise error.AlreadyResponded
MutNotFresh(s) == s.responded
NotFresh(s) == s.deferred \/ s.responded

\* base["data"] = {"flags": 64} of the acknowledgment
MutDeferFlags(hidden, ignore) == IF hidden THEN EPHEMERAL ELSE 0
DeferFlags(hidden, ignore) == IF hidden /\ ~ignore THEN EPHEMERAL ELSE 0

\* self.deferred = True after the post of InteractionContext.defer
MutBaseDeferredAfter == FALSE
BaseDeferredAfter == TRUE

\* await self._http.<call>(...): the call numbered n of the operation is the
\* one that raises; no handler of defer, send or edit_origin catches it.
MutRaises(fail, n) == FALSE
Raises(fail, n) == fail = n

InteractionContext_defer(s, hidden, fail) ==
  IF NotFresh(s)
  THEN Outcome(s, <<>>, "AlreadyResponded",
               "You have already responded to this command!")
  ELSE LET s1 == IF hidden THEN [s EXCEPT !.deferred_hidden = TRUE] ELSE s
           r == Req("post_initial_response", DEFER_CHANNEL_MESSAGE,
                    DeferFlags(hidden, FALSE), 0, "ack")
       IN IF Raises(fail, 1)
          THEN Outcome(s1, <<r>>, "HTTPException", "")
          ELSE Outcome([s1 EXCEPT !.deferred = BaseDeferredAfter], <<r>>, "none", "")

\* self.deferred = not ignore
MutDeferredAfter(ignore) == TRUE
DeferredAfter(ignore) == ~ignore

\* if ignore: self.responded = True
MutRespondedAfter(s, ignore) == s.responded
RespondedAfter(s, ignore) == IF ignore THEN TRUE ELSE s.responded

\* The argument checks of ComponentContext.defer and MenuContext.defer, in
\* the code's order; "ok" when none raises.
MutDeferValidate(hidden, edit_origin, ignore) ==
  IF edit_origin /\ ignore
  THEN "'edit_origin' and 'ignore' are mutually exclusive"
  ELSE "ok"
DeferValidate(hidden, edit_origin, ignore) ==
  IF edit_origin /\ ignore
  THEN "'edit_origin' and 'ignore' are mutually exclusive"
  ELSE IF hidden /\ edit_origin
  THEN "'hidden' and 'edit_origin' flags are mutually exclusive"
  ELSE "ok"

\* {"type": 6 if edit_origin or ignore else 5}
MutDeferType(edit_origin, ignore) ==
  IF edit_origin THEN DEFER_UPDATE_MESSAGE ELSE DEFER_CHANNEL_MESSAGE
DeferType(edit_origin, ignore) ==
  IF edit_origin \/ ignore THEN DEFER_UPDATE_MESSAGE ELSE DEFER_CHANNEL_MESSAGE

BoolStr(b) == IF b THEN "True" ELSE "False"

ComponentContext_defer(s, hidden, edit_origin, ignore, fail) ==
  IF NotFresh(s)
  THEN Outcome(s, <<>>, "AlreadyResponded",
               "You have already responded to this command!")
  ELSE IF DeferValidate(hidden, edit_origin, ignore) # "ok"
  THEN Outcome(s, <<>>, "IncorrectFormat",
               DeferValidate(hidden, edit_origin, ignore))
  ELSE LET s1 == [s EXCEPT !.deferred_hidden = IF hidden THEN TRUE ELSE @,
                           !.deferred_edit_origin = BoolStr(edit_origin)]
           r == Req("post_initial_response", DeferType(edit_origin, ignore),
                    DeferFlags(hidden, ignore), 0, "ack")
       IN IF Raises(fail, 1)
          THEN Outcome(s1, <<r>>, "HTTPException", "")
          ELSE Outcome([s1 EXCEPT !.deferred = DeferredAfter(ignore),
                                  !.responded = RespondedAfter(s1, ignore)],
                       <<r>>, "none", "")

\* MenuContext.defer repeats the body of ComponentContext.defer
MenuContext_defer(s, hidden, edit_origin, ignore, fail) ==
  IF NotFresh(s)
  THEN Outcome(s, <<>>, "AlreadyResponded",
               "You have already responded to this command!")
  ELSE IF DeferValidate(hidden, edit_origin, ignore) # "ok"
  THEN Outcome(s, <<>>, "IncorrectFormat",
               DeferValidate(hidden, edit_origin, ignore))
  ELSE LET s1 == [s EXCEPT !.deferred_hidden = IF hidden THEN TRUE ELSE @,
                           !.deferred_edit_origin = BoolStr(edit_origin)]
           r == Req("post_initial_response", DeferType(edit_origin, ignore),
                    DeferFlags(hidden, ignore), 0, "ack")
       IN IF Raises(fail, 1)
          THEN Outcome(s1, <<r>>, "HTTPException", "")
          ELSE Outcome([s1 EXCEPT !.deferred = DeferredAfter(ignore),
                                  !.responded = RespondedAfter(s1, ignore)],
                       <<r>>, "none", "")

\* self.defer(...): the method of the context's own class
defer(k, s, hidden, edit_origin, ignore, fail) ==
  CASE k = "slash" -> InteractionContext_defer(s, hidden, fail)
    [] k = "component" -> ComponentContext_defer(s, hidden, edit_origin, ignore, fail)
    [] k = "menu" -> MenuContext_defer(s, hidden, edit_origin, ignore, fail)

\* ----------------------------------------------------------------- send
\* The argument checks at the head of InteractionContext.send, in the code's
\* order; "ok" when none raises.
MutSendValidate(a) ==
  IF a.embed /\ a.embeds > 0
  THEN "You can't use both embed and embeds!"
  ELSE IF (IF a.embed THEN 1 ELSE a.embeds) >= MaxEmbeds
  THEN "Do not provide more than 10 embeds."
  ELSE IF a.file /\ a.files > 0
  THEN "You can't use both file and files!"
  ELSE IF a.delete_after /\ a.hidden
  THEN "You can't delete a hidden message!"
  ELSE IF a.components = "bad"
  THEN "The top level of the components list must be made of ActionRows!"
  ELSE "ok"
SendValidate(a) ==
  IF a.embed /\ a.embeds > 0
  THEN "You can't use both embed and embeds!"
  ELSE IF (IF a.embed THEN 1 ELSE a.embeds) > MaxEmbeds
  THEN "Do not provide more than 10 embeds."
  ELSE IF a.file /\ a.files > 0
  THEN "You can't use both file and files!"
  ELSE IF a.delete_after /\ a.hidden
  THEN "You can't delete a hidden message!"
  ELSE IF a.components = "bad"
  THEN "The top level of the components list must be made of ActionRows!"
  ELSE "ok"

\* if file: files = [file]: the number of attachments of the call
SendFiles(a) == IF a.file THEN 1 ELSE a.files

\* if files and not self.deferred: await self.defer(hidden=hidden)
MutSendDefers(s, files) == FALSE
SendDefers(s, files) == files > 0 /\ ~s.deferred

\* if self._deferred_hidden != hidden: log.warning(...)
HiddenMismatch(s, hidden) == s.deferred_hidden # hidden

\* if not hidden: resp = await self._http.edit({}, self._token)
MutFetchesMessage(hidden) == FALSE
FetchesMessage(hidden) == ~hidden

\* self.responded = True at the end of the if not self.responded branch
MutSendRespondedAfter == FALSE
SendRespondedAfter == TRUE

\* if files: for file in files: file.close()
Closed(files) == files

\* if not hidden: ... if delete_after: self.bot.loop.create_task(...)
MutScheduled(a) == IF ~a.hidden THEN 1 ELSE 0
Scheduled(a) == IF ~a.hidden /\ a.delete_after THEN 1 ELSE 0

\* The tail of send after the requests: close the files, build the
\* SlashMessage, create the delete task.
SendTail(o, a) ==
  [o EXCEPT !.closed = Closed(SendFiles(a)), !.scheduled = Scheduled(a)]

\* if not self.responded: ... else: post_followup
MutSendIsInitial(s) == ~s.responded \/ ~s.deferred
SendIsInitial(s) == ~s.responded

InteractionContext_send(k, s, a, fail) ==
  IF SendValidate(a) # "ok"
  THEN Outcome(s, <<>>, "IncorrectFormat", SendValidate(a))
  ELSE
  LET files == SendFiles(a)
      flags == IF a.hidden THEN EPHEMERAL ELSE 0
  IN
  IF SendIsInitial(s)
  THEN
    LET d == IF SendDefers(s, files)
             THEN defer(k, s, a.hidden, FALSE, FALSE, fail)
             ELSE Outcome(s, <<>>, "none", "")
        s1 == d.s
    IN
    IF d.raised # "none" THEN d
    ELSE IF s1.deferred
    THEN
      LET r == Req("edit", 0, flags, files, "message")
          reqs == Append(d.reqs, r)
          w == HiddenMismatch(s1, a.hidden)
      IN IF Raises(fail, Len(reqs))
         THEN [Outcome(s1, reqs, "HTTPException", "") EXCEPT !.warned_hidden = w]
         ELSE SendTail(
                [Outcome([s1 EXCEPT !.deferred = FALSE,
                                    !.responded = SendRespondedAfter],
                         reqs, "none", "")
                   EXCEPT !.warned_hidden = w], a)
    ELSE
      LET r1 == Req("post_initial_response", CHANNEL_MESSAGE, flags, 0, "message")
          r2 == Req("edit", 0, 0, 0, "empty")
      IN IF Raises(fail, 1)
         THEN Outcome(s1, <<r1>>, "HTTPException", "")
         ELSE IF FetchesMessage(a.hidden)
         THEN IF Raises(fail, 2)
              THEN Outcome(s1, <<r1, r2>>, "HTTPException", "")
              ELSE SendTail(Outcome([s1 EXCEPT !.responded = SendRespondedAfter],
                                    <<r1, r2>>, "none", ""), a)
         ELSE SendTail(Outcome([s1 EXCEPT !.responded = SendRespondedAfter],
                               <<r1>>, "none", ""), a)
  ELSE
    LET r == Req("post_followup", 0, flags, files, "message")
    IN IF Raises(fail, 1)
       THEN Outcome(s, <<r>>, "HTTPException", "")
       ELSE SendTail(Outcome(s, <<r>>, "none", ""), a)

\* ComponentContext.send and MenuContext.send: the edit-origin warning, then
\* super().send.  Reading _deferred_edit_origin before any defer of a menu
\* context set it raises AttributeError.
OverrideSend(k, s, a, fail) ==
  IF s.deferred /\ s.deferred_edit_origin = "unset"
  THEN Outcome(s, <<>>, "AttributeError", "_deferred_edit_origin")
  ELSE [InteractionContext_send(k, s, a, fail)
          EXCEPT !.warned_edit_origin = s.deferred /\ s.deferred_edit_origin = "True"]

ComponentContext_send(s, a, fail) == OverrideSend("component", s, a, fail)

MenuContext_send(s, a, fail) == OverrideSend("menu", s, a, fail)

send(k, s, a, fail) ==
  CASE k = "slash" -> InteractionContext_send(k, s, a, fail)
    [] k = "component" -> ComponentContext_send(s, a, fail)
    [] k = "menu" -> MenuContext_send(s, a, fail)

\* ---------------------------------------------------------- edit_origin
\* The field checks at the head of ComponentContext.edit_origin; a field is
\* looked at only when its key was passed.
EditOriginValidate(a) ==
  IF a.embeds # Absent /\ a.embeds > MaxEmbeds
  THEN "Do not provide more than 10 embeds."
  ELSE IF a.embed /\ a.embeds # Absent
  THEN "You can't use both embed and embeds!"
  ELSE IF a.files # Absent /\ a.file
  THEN "You can't use both file and files!"
  ELSE "ok"

\* if file: files = [file]
EditOriginFiles(a) == IF a.file THEN 1 ELSE IF a.files = Absent THEN 0 ELSE a.files

\* if not self.responded: ... else: raise error.IncorrectFormat(...)
MutEditOriginAllowed(s) == TRUE
EditOriginAllowed(s) == ~s.responded

\* The exception raised on a context that has responded
EditOriginRejection == "IncorrectFormat"

ComponentContext_edit_origin(s, a, fail) ==
  IF EditOriginValidate(a) # "ok"
  THEN Outcome(s, <<>>, "IncorrectFormat", EditOriginValidate(a))
  ELSE
  LET files == EditOriginFiles(a) IN
  IF EditOriginAllowed(s)
  THEN
    LET d == IF files > 0 /\ ~s.deferred
             THEN ComponentContext_defer(s, FALSE, TRUE, FALSE, fail)
             ELSE Outcome(s, <<>>, "none", "")
        s1 == d.s
    IN
    IF d.raised # "none" THEN d
    ELSE IF s1.deferred
    THEN
      LET r == Req("edit", 0, 0, files, "message")
          reqs == Append(d.reqs, r)
          w == s1.deferred_edit_origin # "True"
      IN IF Raises(fail, Len(reqs))
         THEN [Outcome(s1, reqs, "HTTPException", "") EXCEPT !.warned_edit_origin = w]
         ELSE [Outcome([s1 EXCEPT !.deferred = FALSE, !.responded = TRUE],
                       reqs, "none", "")
                 EXCEPT !.warned_edit_origin = w, !.closed = Closed(files)]
    ELSE
      LET r == Req("post_initial_response", UPDATE_MESSAGE, 0, 0, "message")
      IN IF Raises(fail, 1)
         THEN Outcome(s1, <<r>>, "HTTPException", "")
         ELSE [Outcome([s1 EXCEPT !.responded = TRUE], <<r>>, "none", "")
                 EXCEPT !.closed = Closed(files)]
  ELSE Outcome(s, <<>>, EditOriginRejection, "Already responded")

\* context.edit_origin(...): only ComponentContext defines the method
edit_origin(k, s, a, fail) ==
  IF k = "component"
  THEN ComponentContext_edit_origin(s, a, fail)
  ELSE Outcome(s, <<>>, "AttributeError", "edit_origin")

\* --------------------------------------------------------------- prompt
\* The id that check accepts besides author_id
Owner == "393801572858986496"

\* self.author.id, a user passed as author_id, the hard-coded id, anyone else
Users == {"author", "other", Owner, "stranger"}

\* author_id = author_id or self.author.id
AuthorId(arg) == IF arg = "none" THEN "author" ELSE arg

\* A component event: who clicked, the custom_id of the button, and whether
\* the button is one of this prompt's (message and components of the wait).
Events == [author : Users, custom_id : {"yes", "no"}, here : BOOLEAN]

\* def check(payload): the nonlocal confirm after the call, and the return
\* value.
check(payload, author_id, confirm) ==
  IF payload.author \in {author_id, Owner}
  THEN [ok |-> TRUE, confirm |-> BoolStr(payload.custom_id = "yes")]
  ELSE [ok |-> FALSE, confirm |-> confirm]

\* wait_for_component hands the event to check first; the wait ends with the
\* event when check accepts it and it is on the components and the message
\* waited for.
wait_for_component(ok, payload) == ok /\ payload.here

\* What send returns: the SlashMessage when not hidden; else resp, which is
\* {} after a plain initial response and the response JSON after an edit or
\* a followup.
SendReturn(o, a) ==
  IF ~a.hidden THEN "SlashMessage"
  ELSE IF o.reqs[Len(o.reqs)].call = "post_initial_response" THEN "empty"
  ELSE "dict"

\* message = _message if it is a SlashMessage, else
\* int(_message["id"]) if _message else None
PromptMessage(ret) ==
  CASE ret = "SlashMessage" -> "SlashMessage"
    [] ret = "dict" -> "id"
    [] ret = "empty" -> "None"

\* The color and title _cleanup gives the embed, by confirm and expired
Look(confirm, expired) ==
  CASE confirm = "True" -> [color |-> "green", title |-> "Confirmed: (check mark)"]
    [] confirm = "False" -> [color |-> "red", title |-> "Not Confirmed: (cross mark)"]
    [] confirm = "None" ->
         [color |-> "greyple",
          title |-> IF expired THEN "Not Confirmed: Took too long"
                    ELSE "Not Confirmed: Canceled"]

\* SlashMessage.delete(): one request, which may raise
MessageDelete(fail) ==
  IF Raises(fail, 1)
  THEN Outcome(FALSE, <<Req("delete", 0, 0, 0, "empty")>>, "HTTPException", "")
  ELSE Outcome(TRUE, <<Req("delete", 0, 0, 0, "empty")>>, "none", "")

\* What _cleanup did: the context's fields afterwards, its requests, the
\* exception it raised, whether the message was deleted, whether the buttons
\* were disabled in the list, the embed's color and title, and whether
\* edit_origin submitted them.  ok: f1 and f2 name calls that were made.
CleanupResult(s, reqs, raised, ok) ==
  [s |-> s, reqs |-> reqs, raised |-> raised, ok |-> ok, deleted |-> FALSE,
   disabled |-> FALSE, color |-> "prompt", title |-> "Confirmation Needed",
   edited |-> FALSE, off_origin |-> FALSE]

\* await message.delete() when message is an int or None
MutHasAttributes(message) == TRUE
HasAttributes(message) == message = "SlashMessage"

\* The confirmation message of _cleanup: context.send(embed=...,
\* hidden=hidden, delete_after=None if hidden else 10 if delete_after else None)
CleanupArgs(hidden, delete_after) ==
  [NoArgs EXCEPT !.embed = TRUE, !.hidden = hidden,
                 !.delete_after = ~hidden /\ delete_after]

\* context.edit_origin(embeds=message.embeds, components=buttons)
CleanupEditArgs ==
  [NoArgs EXCEPT !.embeds = 1, !.files = Absent, !.components = "rows"]

\* The else branch of _cleanup once message.embeds[0] could be assigned:
\* o1 is the outcome of the send before it, o2 that of edit_origin.
CleanupEdit(o1, o2, f1, f2, confirm, expired) ==
  [CleanupResult(o2.s, o1.reqs \o o2.reqs, o2.raised,
                 f1 <= Len(o1.reqs) /\ f2 <= Len(o2.reqs))
     EXCEPT !.disabled = TRUE,
            !.color = Look(confirm, expired).color,
            !.title = Look(confirm, expired).title,
            !.edited = o2.raised = "none",
            !.off_origin = o2.warned_edit_origin]

\* await message.delete(): d is the outcome of the delete request
CleanupDelete(o1, d, ok) ==
  [CleanupResult(o1.s, o1.reqs \o d.reqs, d.raised, ok) EXCEPT !.deleted = d.s]

\* _cleanup after its send, whose outcome is o1
CleanupEnd(ck, o1, message, confirm, delete_after, expired, f1, f2) ==
  IF o1.raised # "none"
  THEN CleanupResult(o1.s, o1.reqs, o1.raised, f1 <= Len(o1.reqs) /\ f2 = 0)
  ELSE IF delete_after
  THEN IF HasAttributes(message)
       THEN CleanupDelete(o1, MessageDelete(f2), f1 <= Len(o1.reqs) /\ f2 <= 1)
       ELSE CleanupResult(o1.s, o1.reqs, "AttributeError",
                          f1 <= Len(o1.reqs) /\ f2 = 0)
  ELSE IF ~HasAttributes(message)
  THEN [CleanupResult(o1.s, o1.reqs, "AttributeError",
                      f1 <= Len(o1.reqs) /\ f2 = 0)
          EXCEPT !.disabled = TRUE]
  ELSE CleanupEdit(o1, edit_origin(ck, o1.s, CleanupEditArgs, f2),
                   f1, f2, confirm, expired)

\* _cleanup(context, message, buttons, confirm, delete_after, expired, hidden)
\* on a context of class ck with fields cs; f1 and f2 are the failing calls
\* of its send and of its delete or edit_origin.
Cleanup(ck, cs, message, confirm, delete_after, expired, hidden, f1, f2) ==
  CleanupEnd(ck,
             IF hidden \/ delete_after
             THEN send(ck, cs, CleanupArgs(hidden, delete_after), f1)
             ELSE Outcome(cs, <<>>, "none", ""),
             message, confirm, delete_after, expired, f1, f2)

\* return confirm, message if return_message and not hidden else confirm
Return(confirm, message, return_message, hidden) ==
  [kind |-> "returned", confirm |-> confirm,
   message |-> IF return_message /\ ~hidden THEN message ELSE "absent",
   exc |-> "none"]

\* An exception leaves prompt
Raised(exc) ==
  [kind |-> "raised", confirm |-> "absent", message |-> "absent", exc |-> exc]

\* ---------------------------------------------------------- data models
\* The classes of interactions/api/models that define __init__(**kwargs)
Classes == {"Message", "Emoji", "User"}

\* Keyword names tried: two annotated fields and one the classes do not name
Keys == {"id", "name", "extra"}

Values == {1, 2}

\* The keyword arguments of one construction: any keys, any values
Kwargs == UNION {[ks -> Values] : ks \in SUBSET Keys}

EmptyDict == [k \in {} |-> 0]

\* The instances have a __dict__: User declares __slots__ without it
HasDict(cls) == cls # "User"

\* dict.update(kwargs)
Update(d, kwargs) ==
  [k \in DOMAIN d \cup DOMAIN kwargs |->
     IF k \in DOMAIN kwargs THEN kwargs[k] ELSE d[k]]

\* cls(**kwargs): self.__dict__.update(kwargs)
Construct(cls, kwargs) ==
  IF HasDict(cls)
  THEN [cls |-> cls, kwargs |-> kwargs, raised |-> "none",
        fields |-> Update(EmptyDict, kwargs)]
  ELSE [cls |-> cls, kwargs |-> kwargs, raised |-> "AttributeError",
        fields |-> EmptyDict]

\* Nothing has been constructed
NoObject ==
  [cls |-> "none", kwargs |-> EmptyDict, raised |-> "none",
   fields |-> EmptyDict]

\* ------------------------------------------------ generate_result_embed
\* The members of EmbedType
ResultTypes == {"success", "error", "warning"}

\* "title" of the member's value in the class body
DefaultTitle(result_type) ==
  CASE result_type = "success" -> "Success!"
    [] result_type = "error" -> "Error!"
    [] OTHER -> "Warning!"

\* "color" of the member's value in the class body
DefaultColor(result_type) ==
  CASE result_type = "success" -> "green"
    [] result_type = "error" -> "red"
    [] OTHER -> "orange"

\* The value dicts of the members when the module is imported: color and
\* title; the key description is not there yet.
EmbedTypeValues ==
  [t \in ResultTypes |->
     [color |-> DefaultColor(t), title |-> DefaultTitle(t),
      description |-> <<>>]]

\* Titles passed: None, the empty string, a text
Titles == {"None", "", "Custom"}

\* if title:
Truthy(title) == title \notin {"None", ""}

\* "\n\nIf you need more help, contact <@393801572858986496>."
ContactMe == "If you need more help, contact <@393801572858986496>."

\* embed_kwargs["description"] = message, then += the contact line.  A
\* description is the sequence of its parts.
Description(message, contact_me) ==
  IF contact_me THEN <<message, ContactMe>> ELSE <<message>>

\* generate_result_embed(message, result_type, title, contact_me) with the
\* value dicts E: embed_kwargs IS result_type.value, so the assignments to
\* its keys stay in the member's value.  Returns the dicts afterwards and
\* the embed built from embed_kwargs.
generate_result_embed(E, message, result_type, title, contact_me) ==
  LET kw == [E[result_type] EXCEPT
               !.title = IF Truthy(title) THEN title ELSE @,
               !.description = Description(message, contact_me)]
  IN  [values |-> [E EXCEPT ![result_type] = kw],
       embed |-> [color |-> kw.color, title |-> kw.title,
                  description |-> kw.description]]

\* One call: its arguments and the embed it returned
EmbedCall(message, result_type, title, contact_me, e) ==
  [message |-> message, result_type |-> result_type, title |-> title,
   contact_me |-> contact_me, embed |-> e]

\* The calls prompt and _cleanup make: no title, contact_me only in the
\* handler of Exception
PromptEmbedCalls ==
  {EmbedCall(m, "success", "None", FALSE, <<>>) :
     m \in {"Confirmed", "Not Confirmed"}}
  \cup {EmbedCall("Took too long", "error", "None", FALSE, <<>>),
        EmbedCall("An error occurred, please try again.", "error", "None",
                  TRUE, <<>>)}

\* The calls of other code of the bot
Messages == {"Done"}

\* No call yet
NoEmbedCall == EmbedCall("none", "none", "None", FALSE, <<>>)

\* ---------------------------------------------- operations that overlap
Coroutines == 1..MaxCoroutines

\* A call of defer or send that has not started
NotStarted ==
  [op |-> "none", hidden |-> FALSE, pc |-> "idle", reqs |-> <<>>,
   raised |-> "none", overlapped |-> FALSE]

\* Positions at which a call is suspended in an HTTP call and will assign
\* deferred or responded when it resumes
InitialAwaits == {"defer_post", "send_edit", "send_post", "send_get"}

\* ------------------------------------------------------------ the machine
VARIABLES
  kind,                  \* the class of the context
  deferred,              \* self.deferred
  responded,             \* self.responded
  deferred_hidden,       \* self._deferred_hidden
  deferred_edit_origin,  \* self._deferred_edit_origin ("unset" before it is assigned)
  last,                  \* the operation that has just ended: its call, the fields before it, its outcome
  prev,                  \* the operation before it: its name and the exception it raised
  ops,                   \* operations issued so far
  post_initial_count,    \* post_initial_response calls issued so far
  http_failed,           \* some HTTP call has raised
  send_done,             \* some send has returned normally
  defer_hidden_arg,      \* hidden argument of the defer that made the context DEFERRED
  p,                     \* the call of prompt on the context: its position, locals and result
  tasks,                 \* numbers of the sends whose delayed delete task has not run yet
  ignored,               \* some defer with ignore has returned normally
  initial_ok,            \* some post_initial_response has returned
  obj,                   \* the data model object constructed last
  EmbedType,             \* the value dict of each member of EmbedType
  embed,                 \* the last call of generate_result_embed and what it returned
  co                     \* the calls of defer / send running at once: position and locals of each

vars == <<kind, deferred, responded, deferred_hidden, deferred_edit_origin,
          last, prev, ops, post_initial_count, http_failed, send_done,
          defer_hidden_arg, p, tasks, ignored, initial_ok, obj, EmbedType, embed, co>>

Self ==
  [deferred |-> deferred, responded |-> responded,
   deferred_hidden |-> deferred_hidden,
   deferred_edit_origin |-> deferred_edit_origin]

\* The HTTP call of an operation that raises (0: none does)
Fails == 0..2

\* No operation is running or waiting to be taken up by the callback
Idle ==
  [op |-> "none", args |-> NoArgs, fail |-> 0, seq |-> 0, pre |-> Self,
   pre_send_done |-> FALSE, pre_defer_hidden_arg |-> "none",
   pre_ignored |-> FALSE, pre_initial_ok |-> FALSE,
   out |-> Outcome(Self, <<>>, "none", "")]

NoPrev == [op |-> "none", raised |-> "none"]

\* A context a button click creates: ComponentContext.__init__
ButtonContext ==
  [deferred |-> FALSE, responded |-> FALSE, deferred_hidden |-> FALSE,
   deferred_edit_origin |-> "False"]

\* prompt has not returned
Pending ==
  [kind |-> "pending", confirm |-> "absent", message |-> "absent",
   exc |-> "none"]

\* prompt has not been called: its parameters' defaults are not yet bound
NoPrompt ==
  [pc |-> "idle", hidden |-> FALSE, delete_after |-> FALSE,
   return_message |-> FALSE, author_id |-> "author", message |-> "unset",
   confirm |-> "None", expired |-> FALSE, how |-> "none",
   clicked |-> "none", clicker |-> "none", offered |-> 0, stray |-> FALSE,
   setter |-> "none", bc |-> ButtonContext, log |-> <<>>,
   failure_sent |-> FALSE, failure_reqs |-> <<>>,
   defer_failed |-> FALSE, http_failed |-> FALSE, via |-> "none",
   cleanup |-> CleanupResult(ButtonContext, <<>>, "none", TRUE),
   result |-> Pending]

\* InteractionContext.__init__ and the subclasses __init__: only
\* ComponentContext.__init__ assigns _deferred_edit_origin.
Init ==
  /\ kind \in Kinds
  /\ deferred = FALSE
  /\ responded = FALSE
  /\ deferred_hidden = FALSE
  /\ deferred_edit_origin = (IF kind = "component" THEN "False" ELSE "unset")
  /\ ops = 0
  /\ post_initial_count = 0
  /\ http_failed = FALSE
  /\ send_done = FALSE
  /\ defer_hidden_arg = "none"
  /\ prev = NoPrev
  /\ last = Idle
  /\ p = NoPrompt
  /\ tasks = {}
  /\ ignored = FALSE
  /\ initial_ok = FALSE
  /\ obj = NoObject
  /\ EmbedType = EmbedTypeValues
  /\ embed = NoEmbedCall
  /\ co = [c \in Coroutines |-> NotStarted]

InitialPosts(reqs) ==
  Cardinality({i \in 1..Len(reqs) : reqs[i].call = "post_initial_response"})

\* The hidden argument of the defer call (explicit, or made by send for an
\* attachment) that put the context into DEFERRED.
DeferHiddenArgAfter(a, o) ==
  IF ~o.s.deferred THEN "none"
  ELSE IF ~deferred THEN (IF a.hidden THEN "hidden" ELSE "visible")
  ELSE defer_hidden_arg

\* self.bot.loop.create_task(smsg.delete(delay=delete_after)): the tasks a
\* send numbered n created
MutNewTasks(o, n) == IF o.raised = "none" THEN {n} ELSE {}
NewTasks(o, n) == IF o.scheduled > 0 THEN {n} ELSE {}

\* Some post_initial_response among reqs returned (fail is the call that
\* raised)
InitialOk(reqs, fail) ==
  \E i \in 1..Len(reqs) : reqs[i].call = "post_initial_response" /\ i # fail

\* The callback may call an operation: none is running
Ready == last.op = "none" /\ ops < MaxOps

\* One operation called by the callback: the context after it, and the
\* record of the call.
Apply(op, a, fail, o) ==
  /\ fail <= Len(o.reqs)
  /\ deferred' = o.s.deferred
  /\ responded' = o.s.responded
  /\ deferred_hidden' = o.s.deferred_hidden
  /\ deferred_edit_origin' = o.s.deferred_edit_origin
  /\ last' = [op |-> op, args |-> a, fail |-> fail, seq |-> ops + 1,
              pre |-> Self, pre_send_done |-> send_done,
              pre_defer_hidden_arg |-> defer_hidden_arg,
              pre_ignored |-> ignored, pre_initial_ok |-> initial_ok,
              out |-> o]
  /\ ops' = ops + 1
  /\ post_initial_count' = post_initial_count + InitialPosts(o.reqs)
  /\ http_failed' = (http_failed \/ o.raised = "HTTPException")
  /\ send_done' = (send_done \/ (op = "send" /\ o.raised = "none"))
  /\ defer_hidden_arg' = DeferHiddenArgAfter(a, o)
  /\ tasks' = tasks \cup NewTasks(o, ops + 1)
  /\ ignored' = (ignored \/ (op = "defer" /\ a.ignore /\ o.raised = "none"))
  /\ initial_ok' = (initial_ok \/ InitialOk(o.reqs, fail))
  /\ UNCHANGED <<kind, prev, p, obj, EmbedType, embed, co>>

Defer ==
  /\ Ready
  /\ \E a \in DeferArgs(kind), fail \in Fails :
       Apply("defer", a, fail, defer(kind, Self, a.hidden, a.edit_origin, a.ignore, fail))

Send ==
  /\ Ready
  /\ \E a \in SendArgs, fail \in Fails :
       Apply("send", a, fail, send(kind, Self, a, fail))

EditOrigin ==
  /\ Ready
  /\ \E a \in EditOriginArgs, fail \in Fails :
       Apply("edit_origin", a, fail, edit_origin(kind, Self, a, fail))

\* The callback takes the result of the operation (its return value or the
\* exception) and goes on to its next call.
Callback ==
  /\ last.op # "none"
  /\ prev' = [op |-> last.op, raised |-> last.out.raised]
  /\ last' = Idle
  /\ UNCHANGED <<kind, deferred, responded, deferred_hidden,
                 deferred_edit_origin, ops, post_initial_count, http_failed,
                 send_done, defer_hidden_arg, p, tasks, ignored, initial_ok,
                 obj, EmbedType, embed, co>>

\* A delayed delete task runs: the delete request of the message that the
\* send numbered t returned goes out, after that send has returned.
DeleteTask ==
  /\ last.op = "none"
  /\ \E t \in tasks, fail \in 0..1 :
       /\ last' = [Idle EXCEPT !.op = "delete_task", !.fail = fail,
                                !.seq = t,
                                !.out = [MessageDelete(fail) EXCEPT !.s = Self]]
       /\ tasks' = tasks \ {t}
  /\ UNCHANGED <<kind, deferred, responded, deferred_hidden,
                 deferred_edit_origin, prev, ops, post_initial_count,
                 http_failed, send_done, defer_hidden_arg, p, ignored,
                 initial_ok, obj, EmbedType, embed, co>>

Next == Defer \/ Send \/ EditOrigin \/ Callback \/ DeleteTask

Spec == Init /\ [][Next]_vars

\* ------------------------------------------------- the machine of prompt
\* The fields of a context of class k after __init__
Fresh(k) ==
  [deferred |-> FALSE, responded |-> FALSE, deferred_hidden |-> FALSE,
   deferred_edit_origin |-> IF k = "component" THEN "False" ELSE "unset"]

\* The contexts the callback calls prompt on: new, or after one defer or
\* send of the callback
Starts(k) ==
  {Fresh(k)}
  \cup {defer(k, Fresh(k), a.hidden, a.edit_origin, a.ignore, 0).s : a \in DeferArgs(k)}
  \cup {send(k, Fresh(k), NoArgs, 0).s}

PromptInit ==
  /\ kind \in Kinds
  /\ \E s \in Starts(kind) :
       /\ deferred = s.deferred
       /\ responded = s.responded
       /\ deferred_hidden = s.deferred_hidden
       /\ deferred_edit_origin = s.deferred_edit_origin
  /\ ops = 0
  /\ post_initial_count = 0
  /\ http_failed = FALSE
  /\ send_done = FALSE
  /\ defer_hidden_arg = "none"
  /\ prev = NoPrev
  /\ last = Idle
  /\ p = NoPrompt
  /\ tasks = {}
  /\ ignored = FALSE
  /\ initial_ok = FALSE
  /\ obj = NoObject
  /\ EmbedType = EmbedTypeValues
  /\ embed = NoEmbedCall
  /\ co = [c \in Coroutines |-> NotStarted]

\* The requests of one operation, with the context that issued them
Tag(c, reqs) == [i \in 1..Len(reqs) |-> [ctx |-> c, req |-> reqs[i]]]

\* One step of prompt: its locals afterwards and the fields of self
PromptStep(q, s) ==
  /\ p' = q
  /\ deferred' = s.deferred
  /\ responded' = s.responded
  /\ deferred_hidden' = s.deferred_hidden
  /\ deferred_edit_origin' = s.deferred_edit_origin
  /\ UNCHANGED <<kind, last, prev, ops, post_initial_count, http_failed,
                 send_done, defer_hidden_arg, tasks, ignored, initial_ok, obj, EmbedType, embed, co>>

\* The embed messages prompt sends: the prompt itself, and the hidden
\* failure message
PromptArgs(hidden) ==
  [NoArgs EXCEPT !.embed = TRUE, !.hidden = hidden, !.components = "rows"]

MutFailureArgs == [NoArgs EXCEPT !.embed = TRUE]
FailureArgs == [NoArgs EXCEPT !.embed = TRUE, !.hidden = TRUE]

\* prompt up to the wait: bind the parameters, send the prompt message
PromptCall ==
  /\ p.pc = "idle"
  /\ \E h \in BOOLEAN, d \in BOOLEAN, rm \in BOOLEAN,
        aid \in {"none", "other"}, fail \in Fails :
       \E o \in {send(kind, Self, PromptArgs(h), fail)} :
         \E q \in {[p EXCEPT !.hidden = h, !.delete_after = d,
                             !.return_message = rm,
                             !.author_id = AuthorId(aid),
                             !.log = Tag("self", o.reqs),
                             !.http_failed = o.raised = "HTTPException"]} :
           /\ fail <= Len(o.reqs)
           /\ IF o.raised # "none"
              THEN PromptStep([q EXCEPT !.pc = "done",
                                        !.result = Raised(o.raised)], o.s)
              ELSE PromptStep(
                     [q EXCEPT !.pc = "waiting",
                               !.message = PromptMessage(SendReturn(o, PromptArgs(h)))],
                     o.s)

\* A component event reaches the wait
PromptEvent ==
  /\ p.pc = "waiting"
  /\ p.offered < MaxEvents
  /\ \E e \in Events :
       \E c \in {check(e, p.author_id, p.confirm)} :
         IF wait_for_component(c.ok, e)
         THEN PromptStep([p EXCEPT !.confirm = c.confirm, !.offered = @ + 1,
                                   !.setter = e.author,
                                   !.pc = "clicked", !.how = "click",
                                   !.clicked = e.custom_id,
                                   !.clicker = e.author], Self)
         ELSE PromptStep([p EXCEPT !.confirm = c.confirm, !.offered = @ + 1,
                                   !.setter = IF c.ok THEN e.author ELSE @,
                                   !.stray = @ \/ c.ok], Self)

\* try: await _cleanup(...) finally: return ...
Finally(q, via, cl) ==
  [q EXCEPT !.pc = "done", !.via = via, !.cleanup = cl,
            !.log = @ \o Tag(via, cl.reqs),
            !.http_failed = @ \/ cl.raised = "HTTPException",
            !.result = Return(q.confirm, q.message, q.return_message, q.hidden)]

\* The failure message was sent (outcome o)
FailureSent(q, o) ==
  [q EXCEPT !.log = @ \o Tag("self", o.reqs),
            !.failure_sent = o.raised = "none",
            !.failure_reqs = o.reqs,
            !.http_failed = @ \/ o.raised = "HTTPException"]

\* The handler of TimeoutError or Exception: the hidden failure message on
\* self, then cleanup on self
FailureThenCleanup(q, expired, fe, f1, f2) ==
  \E o \in {send(kind, Self, FailureArgs, fe)} :
    /\ fe <= Len(o.reqs)
    /\ IF o.raised # "none"
       THEN /\ f1 = 0
            /\ f2 = 0
            /\ PromptStep([FailureSent(q, o) EXCEPT !.pc = "done",
                                                    !.result = Raised(o.raised)],
                          o.s)
       ELSE \E cl \in {Cleanup(kind, o.s, q.message, q.confirm,
                               q.delete_after, expired, q.hidden, f1, f2)} :
              /\ cl.ok
              /\ PromptStep(Finally(FailureSent(q, o), "self", cl), cl.s)

\* except asyncio.TimeoutError
PromptTimeout ==
  /\ p.pc = "waiting"
  /\ \E fe \in Fails, f1 \in Fails, f2 \in Fails :
       FailureThenCleanup([p EXCEPT !.how = "timeout", !.expired = TRUE],
                          TRUE, fe, f1, f2)

\* except asyncio.CancelledError: cleanup on self, then return confirm
PromptCancel ==
  /\ p.pc = "waiting"
  /\ \E f1 \in Fails, f2 \in Fails :
       \E cl \in {Cleanup(kind, Self, p.message, p.confirm, p.delete_after,
                          FALSE, p.hidden, f1, f2)} :
         /\ cl.ok
         /\ PromptStep(
              [p EXCEPT !.pc = "done", !.how = "cancel", !.via = "self",
                        !.cleanup = cl,
                        !.log = @ \o Tag("self", cl.reqs),
                        !.http_failed = cl.raised = "HTTPException",
                        !.result =
                          IF cl.raised # "none" THEN Raised(cl.raised)
                          ELSE Return(p.confirm, p.message, FALSE, p.hidden)],
              cl.s)

\* button_context.defer(hidden=hidden) ended with outcome d
ButtonDeferred(q, d) ==
  [q EXCEPT !.bc = d.s, !.log = @ \o Tag("button", d.reqs),
            !.defer_failed = d.raised # "none",
            !.http_failed = d.raised = "HTTPException"]

\* The wait returned the clicked button's context: defer it, then cleanup
\* through it; when the defer raises, the handler of Exception
PromptDefer ==
  /\ p.pc = "clicked"
  /\ \E f0 \in 0..1, fe \in Fails, f1 \in Fails, f2 \in Fails :
       \E d \in {ComponentContext_defer(p.bc, p.hidden, FALSE, FALSE, f0)} :
         IF d.raised = "none"
         THEN \E cl \in {Cleanup("component", d.s, p.message, p.confirm,
                                 p.delete_after, FALSE, p.hidden, f1, f2)} :
                /\ fe = 0
                /\ cl.ok
                /\ PromptStep([Finally(ButtonDeferred(p, d), "button", cl)
                                 EXCEPT !.bc = cl.s], Self)
         ELSE FailureThenCleanup(ButtonDeferred(p, d), FALSE, fe, f1, f2)

PromptNext ==
  PromptCall \/ PromptEvent \/ PromptTimeout \/ PromptCancel \/ PromptDefer

PromptSpec == PromptInit /\ [][PromptNext]_vars

\* -------------------------------------------- the machine of data models
\* The caller constructs a data model from keyword arguments
New ==
  /\ \E cls \in Classes, kwargs \in Kwargs : obj' = Construct(cls, kwargs)
  /\ UNCHANGED <<kind, deferred, responded, deferred_hidden,
                 deferred_edit_origin, last, prev, ops, post_initial_count,
                 http_failed, send_done, defer_hidden_arg, p, tasks, ignored,
                 initial_ok, EmbedType, embed, co>>

DataNext == New

DataSpec == Init /\ [][DataNext]_vars

\* ------------------------------------- the machine of generate_result_embed
\* A call by code of the bot, with any arguments
GenerateResultEmbed ==
  /\ \E message \in Messages, result_type \in ResultTypes, title \in Titles,
        contact_me \in BOOLEAN :
       \E r \in {generate_result_embed(EmbedType, message, result_type, title,
                                       contact_me)} :
         /\ EmbedType' = r.values
         /\ embed' = EmbedCall(message, result_type, title, contact_me, r.embed)
  /\ UNCHANGED <<kind, deferred, responded, deferred_hidden,
                 deferred_edit_origin, last, prev, ops, post_initial_count,
                 http_failed, send_done, defer_hidden_arg, p, tasks, ignored,
                 initial_ok, obj, co>>

\* A call made by prompt or by _cleanup
PromptResultEmbed ==
  /\ \E c \in PromptEmbedCalls :
       \E r \in {generate_result_embed(EmbedType, c.message, c.result_type,
                                       c.title, c.contact_me)} :
         /\ EmbedType' = r.values
         /\ embed' = [c EXCEPT !.embed = r.embed]
  /\ UNCHANGED <<kind, deferred, responded, deferred_hidden,
                 deferred_edit_origin, last, prev, ops, post_initial_count,
                 http_failed, send_done, defer_hidden_arg, p, tasks, ignored,
                 initial_ok, obj, co>>

EmbedNext == GenerateResultEmbed \/ PromptResultEmbed

EmbedSpec == Init /\ [][EmbedNext]_vars

\* ------------------------------------ the machine of overlapping operations
\* Calls of InteractionContext.defer and InteractionContext.send (no files)
\* on one context, run by tasks of the same event loop: a call runs alone
\* from one await to the next and another call may run while it is suspended
\* in an HTTP call.
OverlapInit ==
  /\ kind = "slash"
  /\ \E s \in Starts(kind) :
       /\ deferred = s.deferred
       /\ responded = s.responded
       /\ deferred_hidden = s.deferred_hidden
       /\ deferred_edit_origin = s.deferred_edit_origin
  /\ ops = 0
  /\ post_initial_count = 0
  /\ http_failed = FALSE
  /\ send_done = FALSE
  /\ defer_hidden_arg = "none"
  /\ prev = NoPrev
  /\ last = Idle
  /\ p = NoPrompt
  /\ tasks = {}
  /\ ignored = FALSE
  /\ initial_ok = FALSE
  /\ obj = NoObject
  /\ EmbedType = EmbedTypeValues
  /\ embed = NoEmbedCall
  /\ co = [c \in Coroutines |-> NotStarted]

\* Some other call is suspended before it has assigned deferred / responded
Overlaps(c) == \E u \in Coroutines \ {c} : co[u].pc \in InitialAwaits

\* defer up to its await: the test of the flags, _deferred_hidden, the call
\* of post_initial_response
StartDefer(c) ==
  /\ co[c].pc = "idle"
  /\ \E hidden \in BOOLEAN :
       IF deferred \/ responded
       THEN /\ co' = [co EXCEPT ![c] =
                        [op |-> "defer", hidden |-> hidden, pc |-> "done",
                         reqs |-> <<>>, raised |-> "AlreadyResponded",
                         overlapped |-> Overlaps(c)]]
            /\ UNCHANGED <<deferred_hidden, post_initial_count>>
       ELSE /\ co' = [co EXCEPT ![c] =
                        [op |-> "defer", hidden |-> hidden, pc |-> "defer_post",
                         reqs |-> <<Req("post_initial_response",
                                        DEFER_CHANNEL_MESSAGE,
                                        IF hidden THEN EPHEMERAL ELSE 0, 0,
                                        "ack")>>,
                         raised |-> "none", overlapped |-> Overlaps(c)]]
            /\ deferred_hidden' = (hidden \/ deferred_hidden)
            /\ post_initial_count' = post_initial_count + 1
  /\ UNCHANGED <<kind, deferred, responded, deferred_edit_origin, last, prev,
                 ops, http_failed, send_done, defer_hidden_arg, p, tasks,
                 ignored, initial_ok, obj, EmbedType, embed>>

\* send up to its first await: the branch on responded and deferred, the
\* call of edit, post_initial_response or post_followup
StartSend(c) ==
  /\ co[c].pc = "idle"
  /\ \E hidden \in BOOLEAN :
       LET flags == IF hidden THEN EPHEMERAL ELSE 0
           pc == IF responded THEN "send_followup"
                 ELSE IF deferred THEN "send_edit" ELSE "send_post"
           r == IF responded THEN Req("post_followup", 0, flags, 0, "message")
                ELSE IF deferred THEN Req("edit", 0, flags, 0, "message")
                ELSE Req("post_initial_response", CHANNEL_MESSAGE, flags, 0,
                         "message")
       IN /\ co' = [co EXCEPT ![c] =
                      [op |-> "send", hidden |-> hidden, pc |-> pc,
                       reqs |-> <<r>>, raised |-> "none",
                       overlapped |-> Overlaps(c)]]
          /\ post_initial_count' =
               post_initial_count + (IF pc = "send_post" THEN 1 ELSE 0)
  /\ UNCHANGED <<kind, deferred, responded, deferred_hidden,
                 deferred_edit_origin, last, prev, ops, http_failed, send_done,
                 defer_hidden_arg, p, tasks, ignored, initial_ok, obj,
                 EmbedType, embed>>

\* The HTTP call a suspended call waits for returns (ok) or raises: the call
\* runs on to its next await or to its end
Resume(c) ==
  /\ co[c].pc \notin {"idle", "done"}
  /\ \E ok \in BOOLEAN :
       IF ~ok
       THEN /\ co' = [co EXCEPT ![c].pc = "done", ![c].raised = "HTTPException"]
            /\ http_failed' = TRUE
            /\ UNCHANGED <<deferred, responded>>
       ELSE /\ http_failed' = http_failed
            /\ CASE co[c].pc = "defer_post" ->
                      /\ deferred' = TRUE
                      /\ co' = [co EXCEPT ![c].pc = "done"]
                      /\ UNCHANGED responded
                 [] co[c].pc = "send_edit" ->
                      /\ deferred' = FALSE
                      /\ responded' = TRUE
                      /\ co' = [co EXCEPT ![c].pc = "done"]
                 [] co[c].pc = "send_post" /\ ~co[c].hidden ->
                      /\ co' = [co EXCEPT ![c].pc = "send_get",
                                          ![c].reqs = Append(@, Req("edit", 0, 0, 0, "empty"))]
                      /\ UNCHANGED <<deferred, responded>>
                 [] co[c].pc = "send_post" /\ co[c].hidden ->
                      /\ responded' = TRUE
                      /\ co' = [co EXCEPT ![c].pc = "done"]
                      /\ UNCHANGED deferred
                 [] co[c].pc = "send_get" ->
                      /\ responded' = TRUE
                      /\ co' = [co EXCEPT ![c].pc = "done"]
                      /\ UNCHANGED deferred
                 [] OTHER ->
                      /\ co' = [co EXCEPT ![c].pc = "done"]
                      /\ UNCHANGED <<deferred, responded>>
  /\ UNCHANGED <<kind, deferred_hidden, deferred_edit_origin, last, prev, ops,
                 post_initial_count, send_done, defer_hidden_arg, p, tasks,
                 ignored, initial_ok, obj, EmbedType, embed>>

OverlapNext == \E c \in Coroutines : StartDefer(c) \/ StartSend(c) \/ Resume(c)

OverlapSpec == OverlapInit /\ [][OverlapNext]_vars

\* =================================================================== claims
\* The three response states, read off a record of the context's fields
FRESH(s) == ~s.deferred /\ ~s.responded
DEFERRED(s) == s.deferred /\ ~s.responded
RESPONDED(s) == s.responded /\ ~s.deferred

\* The operation recorded in last left all four fields as they were
FieldsUnchanged == Self = last.pre

\* The calls of the requests the last operation issued
Calls == {last.out.reqs[i].call : i \in 1..Len(last.out.reqs)}

\* The number of attachments the last call carried
Attachments ==
  IF last.args.file THEN 1
  ELSE IF last.args.files = Absent THEN 0 ELSE last.args.files

\* C1: a defer on a context that is not FRESH raises AlreadyResponded, issues
\* no HTTP request and leaves deferred and responded as they were; so does a
\* defer that directly follows a defer that returned normally.
C1_DeferNotFreshRaises ==
  /\ (last.op = "defer" /\ ~FRESH(last.pre)) =>
       /\ last.out.raised = "AlreadyResponded"
       /\ last.out.reqs = <<>>
       /\ deferred = last.pre.deferred
       /\ responded = last.pre.responded
  /\ (last.op = "defer" /\ prev.op = "defer" /\ prev.raised = "none") =>
       /\ last.out.raised = "AlreadyResponded"
       /\ last.out.reqs = <<>>

C1_Witness ==
  /\ last.op = "defer"
  /\ prev.op = "defer"
  /\ prev.raised = "none"
  /\ DEFERRED(last.pre)
  /\ last.out.raised = "AlreadyResponded"

\* C2: once a send has returned normally, a later send never posts an
\* initial response and never edits the original response; when its
\* arguments are accepted it issues exactly one post_followup request.
C2_LaterSendIsFollowup ==
  (last.op = "send" /\ last.pre_send_done) =>
    /\ Calls \subseteq {"post_followup"}
    /\ last.out.raised # "IncorrectFormat" => Len(last.out.reqs) = 1

C2_Witness ==
  /\ last.op = "send"
  /\ last.pre_send_done
  /\ prev.op # "send"
  /\ Len(last.out.reqs) = 1
  /\ last.out.reqs[1].call = "post_followup"

\* C3: as long as every HTTP call has returned, post_initial_response has
\* been invoked at most once for the interaction.
C3_AtMostOneInitialResponse ==
  ~http_failed => post_initial_count <= 1

C3_Witness ==
  /\ ~http_failed
  /\ post_initial_count = 1
  /\ ops >= 3
  /\ last.op = "send"
  /\ last.out.raised = "none"
  /\ prev.raised = "none"

\* C4: deferred and responded are never both true, and a step only moves the
\* context FRESH to DEFERRED, DEFERRED to RESPONDED or FRESH to RESPONDED;
\* responded never returns to false.
C4_ThreeStates ==
  /\ [](~(deferred /\ responded))
  /\ [][\/ (deferred' = deferred /\ responded' = responded)
        \/ (FRESH(Self) /\ deferred' /\ ~responded')
        \/ (DEFERRED(Self) /\ responded' /\ ~deferred')
        \/ (FRESH(Self) /\ responded' /\ ~deferred')]_vars

C4_Witness ==
  /\ RESPONDED(Self)
  /\ DEFERRED(last.pre)
  /\ prev.op = "defer"

\* C5 as stated: a defer that returns normally on a FRESH context leaves the
\* context DEFERRED.
C5_Original ==
  (last.op = "defer" /\ FRESH(last.pre) /\ last.out.raised = "none") =>
    DEFERRED(Self)

\* C5 amended: a defer that returns normally on a FRESH context leaves the
\* context DEFERRED, except with ignore set, where it leaves it RESPONDED.
C5_DeferLeavesDeferredUnlessIgnore ==
  (last.op = "defer" /\ FRESH(last.pre) /\ last.out.raised = "none") =>
    IF last.args.ignore THEN RESPONDED(Self) ELSE DEFERRED(Self)

C5_Witness ==
  /\ last.op = "defer"
  /\ FRESH(last.pre)
  /\ last.out.raised = "none"
  /\ last.args.ignore
  /\ RESPONDED(Self)

\* C6 as stated: an operation that returns normally has issued one HTTP
\* request, or two when it is a send or edit_origin with attachments on a
\* FRESH context.
C6_Original ==
  (last.op # "none" /\ last.out.raised = "none") =>
    Len(last.out.reqs) =
      (IF last.op \in {"send", "edit_origin"} /\ Attachments > 0 /\ FRESH(last.pre)
       THEN 2 ELSE 1)

\* C6 amended: two requests as well for a non-hidden send without
\* attachments on a FRESH context (the type 4 response, then an empty edit).
C6_RequestsPerOperation ==
  (last.op # "none" /\ last.out.raised = "none") =>
    Len(last.out.reqs) =
      (IF last.op \in {"send", "edit_origin"} /\ Attachments > 0 /\ FRESH(last.pre)
       THEN 2
       ELSE IF last.op = "send" /\ FRESH(last.pre) /\ ~last.args.hidden
       THEN 2
       ELSE 1)

C6_Witness ==
  /\ last.op = "send"
  /\ FRESH(last.pre)
  /\ ~last.args.hidden
  /\ Attachments = 0
  /\ last.out.raised = "none"
  /\ Len(last.out.reqs) = 2
  /\ last.out.reqs[2].body = "empty"

\* The arguments of the last send break one of the constraints
SendArgsIllFormed ==
  \/ last.args.embed /\ last.args.embeds > 0
  \/ last.args.embeds > 10
  \/ last.args.file /\ last.args.files > 0
  \/ last.args.delete_after /\ last.args.hidden
  \/ last.args.components = "bad"

\* C7: a send whose arguments break a constraint raises IncorrectFormat
\* before any HTTP request and leaves the fields of the context unchanged;
\* a send with 10 embeds and no broken constraint is not rejected.
C7_IllFormedSendRejected ==
  /\ (last.op = "send" /\ SendArgsIllFormed) =>
       /\ last.out.raised = "IncorrectFormat"
       /\ last.out.reqs = <<>>
       /\ FieldsUnchanged
  /\ (last.op = "send" /\ last.args.embeds = 10 /\ ~SendArgsIllFormed) =>
       /\ last.out.raised # "IncorrectFormat"
       /\ Len(last.out.reqs) >= 1

C7_Witness ==
  /\ last.op = "send"
  /\ DEFERRED(last.pre)
  /\ last.args.delete_after
  /\ last.args.hidden
  /\ last.args.embeds = 10
  /\ last.out.raised = "IncorrectFormat"

\* The fields of the last edit_origin pass its checks
EditOriginArgsWellFormed ==
  /\ last.args.embeds <= 10
  /\ ~(last.args.embed /\ last.args.embeds # Absent)
  /\ ~(last.args.file /\ last.args.files # Absent)

\* C8: an edit_origin with well-formed fields on a component context that
\* has responded raises IncorrectFormat("Already responded"), issues no HTTP
\* request and leaves the fields of the context unchanged.
C8_EditOriginAfterResponded ==
  (/\ last.op = "edit_origin"
   /\ kind = "component"
   /\ last.pre.responded
   /\ EditOriginArgsWellFormed) =>
    /\ last.out.raised = "IncorrectFormat"
    /\ last.out.msg = "Already responded"
    /\ last.out.reqs = <<>>
    /\ FieldsUnchanged

C8_Witness ==
  /\ last.op = "edit_origin"
  /\ kind = "component"
  /\ last.pre.responded
  /\ prev.op = "edit_origin"
  /\ prev.raised = "none"
  /\ last.out.msg = "Already responded"

\* C9: a send with at least one attachment on a FRESH context never posts a
\* type 4 response; its first request is the type 5 acknowledgment, with
\* flag 64 exactly when hidden, and when it returns normally it has then
\* issued one edit with the content and the files and the context is
\* RESPONDED.
C9_AttachmentSendDefersThenEdits ==
  (/\ last.op = "send"
   /\ FRESH(last.pre)
   /\ Attachments >= 1
   /\ last.out.raised # "IncorrectFormat") =>
    /\ \A i \in 1..Len(last.out.reqs) : last.out.reqs[i].type # CHANNEL_MESSAGE
    /\ Len(last.out.reqs) >= 1
    /\ last.out.reqs[1] =
         Req("post_initial_response", 5,
             IF last.args.hidden THEN 64 ELSE 0, 0, "ack")
    /\ last.out.raised = "none" =>
         /\ Len(last.out.reqs) = 2
         /\ last.out.reqs[2] =
              Req("edit", 0, IF last.args.hidden THEN 64 ELSE 0,
                  Attachments, "message")
         /\ RESPONDED(Self)

C9_Witness ==
  /\ last.op = "send"
  /\ FRESH(last.pre)
  /\ Attachments >= 1
  /\ last.args.hidden
  /\ last.out.raised = "none"
  /\ Len(last.out.reqs) = 2
  /\ RESPONDED(Self)

\* C10: a send on a DEFERRED context edits the deferred placeholder and logs
\* the hidden / visible warning exactly when its hidden argument differs
\* from the hidden argument of the defer that made the context DEFERRED.
C10_WarnsIffHiddenDiffers ==
  (/\ last.op = "send"
   /\ DEFERRED(last.pre)
   /\ last.out.raised # "IncorrectFormat") =>
    /\ Len(last.out.reqs) = 1
    /\ last.out.reqs[1].call = "edit"
    /\ last.out.warned_hidden <=>
         (last.args.hidden # (last.pre_defer_hidden_arg = "hidden"))

\* C11: on a component or menu context that has not responded, an
\* edit_origin with well-formed fields whose HTTP calls return moves the
\* context as send does: from FRESH it posts one initial response of type 7
\* and ends RESPONDED; from FRESH with attachments it first acknowledges with
\* type 6 and then edits; from DEFERRED it issues one edit, clears deferred
\* and ends RESPONDED.
C11_EditOriginFollowsSend ==
  (/\ last.op = "edit_origin"
   /\ kind \in {"component", "menu"}
   /\ EditOriginArgsWellFormed
   /\ ~last.pre.responded
   /\ last.fail = 0) =>
    /\ last.out.raised = "none"
    /\ RESPONDED(Self)
    /\ last.out.reqs =
         IF DEFERRED(last.pre)
         THEN <<Req("edit", 0, 0, Attachments, "message")>>
         ELSE IF Attachments > 0
         THEN <<Req("post_initial_response", DEFER_UPDATE_MESSAGE, 0, 0, "ack"),
                Req("edit", 0, 0, Attachments, "message")>>
         ELSE <<Req("post_initial_response", UPDATE_MESSAGE, 0, 0, "message")>>

\* C12: the acknowledgment a defer posts has type 5 on a slash context; on a
\* component or menu context it has type 6 exactly when edit_origin or
\* ignore is set and type 5 otherwise; it carries the ephemeral flag 64
\* exactly when hidden is set and ignore is not, and no data otherwise.
C12_DeferAcknowledgment ==
  (last.op = "defer" /\ last.out.reqs # <<>>) =>
    /\ Len(last.out.reqs) = 1
    /\ last.out.reqs[1].call = "post_initial_response"
    /\ last.out.reqs[1].body = "ack"
    /\ last.out.reqs[1].type =
         (IF kind # "slash" /\ (last.args.edit_origin \/ last.args.ignore)
          THEN 6 ELSE 5)
    /\ last.out.reqs[1].flags =
         (IF last.args.hidden /\ ~last.args.ignore THEN 64 ELSE 0)

C12_Witness ==
  /\ last.op = "defer"
  /\ kind = "menu"
  /\ last.args.hidden
  /\ last.args.ignore
  /\ last.out.raised = "none"
  /\ last.out.reqs = <<Req("post_initial_response", 6, 0, 0, "ack")>>

\* C13: a send or edit_origin that was given file handles and issued a
\* request has closed every one of the handles when it ends, whether it
\* returns or raises.
C13_FilesClosedOnEveryPath ==
  (/\ last.op \in {"send", "edit_origin"}
   /\ Attachments > 0
   /\ last.out.reqs # <<>>) =>
    last.out.closed = Attachments

\* C14: a send that returns normally creates one delayed delete task when
\* delete_after is given and the response is not hidden, and none otherwise,
\* whichever of the initial response, the edit of the deferred placeholder
\* and the followup it issued; a hidden send never creates one.
C14_DeleteTaskIffDeleteAfter ==
  (last.op = "send" /\ last.out.raised = "none") =>
    /\ last.out.scheduled =
         (IF last.args.delete_after /\ ~last.args.hidden THEN 1 ELSE 0)
    /\ last.args.hidden => last.out.scheduled = 0

C14_Witness ==
  /\ last.op = "send"
  /\ last.out.raised = "none"
  /\ last.args.delete_after
  /\ RESPONDED(last.pre)
  /\ Calls = {"post_followup"}
  /\ last.out.scheduled = 1

\* C15: when an HTTP call of defer, send or edit_origin raises, the failed
\* request is the last request of the operation (it is not issued again and
\* none follows it) and the operation raises the failure to its caller.
C15_FailureEndsOperation ==
  last.fail > 0 =>
    /\ last.out.raised = "HTTPException"
    /\ Len(last.out.reqs) = last.fail
    /\ \A i \in 1..(Len(last.out.reqs) - 1) :
         last.out.reqs[i] # last.out.reqs[last.fail]

C15_Witness ==
  /\ last.op = "send"
  /\ last.fail = 2
  /\ last.out.raised = "HTTPException"
  /\ Len(last.out.reqs) = 2
  /\ Attachments > 0

\* prompt has ended, by a return or by an exception
PromptDone == p.pc = "done"

\* The edit requests that cleanup issued
CleanupEdits ==
  {i \in 1..Len(p.cleanup.reqs) : p.cleanup.reqs[i].call = "edit"}

\* C16: prompt returns True when the accepted click is on the yes button,
\* False when it is on the no button, and None when the wait timed out
\* without an accepted click, whatever events were offered to the predicate
\* of the wait before.
C16_PromptResult ==
  (PromptDone /\ p.result.kind = "returned") =>
    /\ p.how = "click" =>
         p.result.confirm = (IF p.clicked = "yes" THEN "True" ELSE "False")
    /\ p.how = "timeout" => p.result.confirm = "None"

\* C17: when the wait timed out, delete_after is false and no HTTP call
\* raised, prompt has submitted an edit with every button disabled and the
\* embed retitled Not Confirmed: Took too long, on every kind of context.
C17_TimeoutLeavesExpiredState ==
  (/\ PromptDone
   /\ p.how = "timeout"
   /\ ~p.delete_after
   /\ ~p.stray
   /\ ~p.http_failed) =>
    /\ p.cleanup.edited
    /\ p.cleanup.disabled
    /\ p.cleanup.color = "greyple"
    /\ p.cleanup.title = "Not Confirmed: Took too long"

\* C18: after an accepted click with delete_after false and no HTTP call
\* raising, prompt has submitted exactly one edit, through the clicked
\* button's context, with every button disabled and the embed green and
\* Confirmed for yes, red and Not Confirmed for no, for hidden and for
\* non-hidden prompts.
C18_ClickEditsPromptOnce ==
  (/\ PromptDone
   /\ p.how = "click"
   /\ ~p.delete_after
   /\ ~p.http_failed) =>
    /\ p.via = "button"
    /\ p.cleanup.edited
    /\ Cardinality(CleanupEdits) = 1
    /\ p.cleanup.disabled
    /\ p.cleanup.color = (IF p.clicked = "yes" THEN "green" ELSE "red")
    /\ p.cleanup.title = (IF p.clicked = "yes" THEN "Confirmed: (check mark)"
                          ELSE "Not Confirmed: (cross mark)")

\* C19: when prompt was cancelled while waiting and no HTTP call raised,
\* cleanup has run to its end and the prompt message is deleted, or edited
\* with every button disabled and the canceled title.
C19_CancelLeavesTerminalState ==
  (/\ PromptDone
   /\ p.how = "cancel"
   /\ ~p.stray
   /\ ~p.http_failed) =>
    /\ p.cleanup.raised = "none"
    /\ \/ p.cleanup.deleted
       \/ /\ p.cleanup.edited
          /\ p.cleanup.disabled
          /\ p.cleanup.title = "Not Confirmed: Canceled"

\* C20: when prompt was cancelled while waiting, it ends by raising the
\* cancellation to its caller and does not return a value.
C20_CancelPropagates ==
  (PromptDone /\ p.how = "cancel") =>
    /\ p.result.kind = "raised"
    /\ p.result.exc = "CancelledError"

C22_OnlyAuthorizedUser ==
  /\ p.setter \in {"none", p.author_id}
  /\ p.clicker \in {"none", p.author_id}

\* C23: whenever prompt returns a value, it is the pair of the result and
\* the sent message exactly when return_message is set and hidden is not,
\* and the bare result otherwise.
C23_PairIffReturnMessage ==
  (PromptDone /\ p.result.kind = "returned") =>
    (p.result.message # "absent" <=> (p.return_message /\ ~p.hidden))

\* defer, send and edit_origin: the operations the callback calls
Operations == {"defer", "send", "edit_origin"}

\* C24 as stated: every request is issued by an operation before it returns
\* and before any later operation is called.
C24_Original ==
  last.out.reqs # <<>> => (last.op \in Operations /\ last.seq = ops)

\* C24: the requests that defer, send and edit_origin issue themselves reach
\* the dispatcher before the operation returns and so in the order of the
\* calls; the one request issued later is the delayed delete, which exists
\* only for a send that returned, was given delete_after and is not hidden,
\* and which a task issues after that send has returned.
C24_InOrderExceptDelayedDelete ==
  /\ last.op \in Operations =>
       /\ last.seq = ops
       /\ Calls \subseteq {"post_initial_response", "edit", "post_followup"}
  /\ (last.op = "send" /\ last.out.raised = "none") =>
       (last.seq \in tasks <=> (last.args.delete_after /\ ~last.args.hidden))
  /\ (last.op \in Operations /\ ~(last.op = "send" /\ last.out.raised = "none")) =>
       last.seq \notin tasks
  /\ last.op = "delete_task" =>
       /\ Calls = {"delete"}
       /\ last.seq <= ops

C24_Witness ==
  /\ last.op = "delete_task"
  /\ last.seq < ops
  /\ prev.op = "send"
  /\ prev.raised = "none"
  /\ last.out.raised = "none"

\* C25: a defer on a context that is not FRESH and an edit_origin on a
\* component context that has responded are both rejected with
\* AlreadyResponded.
C25_SameErrorKind ==
  /\ (last.op = "defer" /\ ~FRESH(last.pre)) =>
       last.out.raised = "AlreadyResponded"
  /\ (/\ last.op = "edit_origin"
      /\ kind = "component"
      /\ EditOriginArgsWellFormed
      /\ last.pre.responded) =>
       last.out.raised = "AlreadyResponded"

\* C26: constructing Message, Emoji or User from keyword arguments succeeds
\* and the object's populated fields are the supplied keys with the supplied
\* values.
C26_ConstructKeepsKwargs ==
  obj.cls # "none" =>
    /\ obj.raised = "none"
    /\ obj.fields = obj.kwargs

\* C27: a component or menu defer with ignore on a FRESH context posts one
\* type-6 acknowledgment without the ephemeral flag, leaves deferred false
\* and sets responded; after it every send is a followup and every defer and
\* edit_origin is rejected without a request.
C27_IgnoreDeferResponds ==
  /\ (/\ last.op = "defer"
      /\ kind # "slash"
      /\ last.args.ignore
      /\ ~last.args.edit_origin
      /\ FRESH(last.pre)
      /\ last.fail = 0) =>
       /\ last.out.raised = "none"
       /\ last.out.reqs = <<Req("post_initial_response", 6, 0, 0, "ack")>>
       /\ ~deferred
       /\ responded
  /\ (last.pre_ignored /\ last.op = "send") =>
       /\ Calls \subseteq {"post_followup"}
       /\ last.out.raised # "IncorrectFormat" => Len(last.out.reqs) = 1
  /\ (last.pre_ignored /\ last.op \in {"defer", "edit_origin"}) =>
       /\ last.out.raised \notin {"none", "HTTPException"}
       /\ last.out.reqs = <<>>
       /\ FieldsUnchanged

C27_Witness ==
  /\ last.pre_ignored
  /\ prev.op = "defer"
  /\ prev.raised = "none"
  /\ last.op = "send"
  /\ last.args.hidden
  /\ last.out.raised = "none"
  /\ Calls = {"post_followup"}

\* The arguments of the last defer that the component and menu defer reject
ConflictingDeferArgs ==
  \/ last.args.edit_origin /\ last.args.ignore
  \/ last.args.hidden /\ last.args.edit_origin

\* C28: a component or menu defer with edit_origin and ignore, or with
\* hidden and edit_origin, raises IncorrectFormat on a FRESH context, issues
\* no request and leaves the four fields as they were, so that a legal defer
\* after it succeeds; on a context that is not FRESH it raises
\* AlreadyResponded.
C28_ConflictingDeferRejected ==
  /\ (last.op = "defer" /\ kind # "slash" /\ ConflictingDeferArgs) =>
       /\ last.out.reqs = <<>>
       /\ FieldsUnchanged
       /\ last.out.raised =
            (IF FRESH(last.pre) THEN "IncorrectFormat" ELSE "AlreadyResponded")
  /\ (/\ last.op = "defer"
      /\ prev.op = "defer"
      /\ prev.raised = "IncorrectFormat"
      /\ ~ConflictingDeferArgs
      /\ last.fail = 0) =>
       /\ last.out.raised = "none"
       /\ Len(last.out.reqs) = 1

C28_Witness ==
  /\ last.op = "defer"
  /\ kind = "menu"
  /\ last.args.hidden
  /\ last.args.edit_origin
  /\ ~last.args.ignore
  /\ FRESH(last.pre)
  /\ last.pre.deferred_edit_origin = "unset"
  /\ last.out.raised = "IncorrectFormat"

\* C29: an edit or a post_followup request is issued only after a
\* post_initial_response for the context has returned, in an earlier
\* operation or earlier in the same one.
C29_NothingBeforeInitialResponse ==
  \A i \in 1..Len(last.out.reqs) :
    last.out.reqs[i].call \in {"edit", "post_followup"} =>
      \/ last.pre_initial_ok
      \/ \E j \in 1..(i - 1) :
           /\ last.out.reqs[j].call = "post_initial_response"
           /\ j # last.fail

C29_Witness ==
  /\ last.op = "send"
  /\ ~last.pre_initial_ok
  /\ Len(last.out.reqs) = 2
  /\ last.out.reqs[2].call = "edit"
  /\ last.out.raised = "none"

\* C30: a defer whose HTTP call raises leaves the context as it was: FRESH,
\* with the recorded deferred-hidden and deferred-edit-origin flags
\* unchanged.
C30_FailedDeferLeavesContext ==
  (last.op = "defer" /\ last.out.raised = "HTTPException") =>
    /\ FRESH(Self)
    /\ FieldsUnchanged


\* ----------------------------------------------------------------- C31
\* C31: when two response operations on one context overlap (the second
\* starts while the first is suspended in its HTTP call, before it has
\* assigned deferred / responded) and no HTTP call raises, at most one
\* initial response is posted, and the second operation is treated as one
\* that follows the first: a defer is rejected with AlreadyResponded, a
\* send goes out as a followup.
C31_OverlapPostsOneInitialResponse ==
  ~http_failed =>
    /\ post_initial_count <= 1
    /\ \A c \in Coroutines :
         co[c].overlapped =>
           /\ co[c].op = "defer" => co[c].raised = "AlreadyResponded"
           /\ co[c].op = "send" => co[c].reqs[1].call = "post_followup"

\* ----------------------------------------------------------------- C32
\* C32: the embed a call of generate_result_embed returns has the title
\* passed to that call, or the default title of the result type when none
\* is passed, and the description made of the message of that call,
\* whatever calls were made before.
C32_EmbedDependsOnlyOnItsCall ==
  embed.result_type # "none" =>
    /\ embed.embed.title =
         (IF Truthy(embed.title) THEN embed.title
          ELSE DefaultTitle(embed.result_type))
    /\ embed.embed.description = Description(embed.message, embed.contact_me)

====
